---------------------------- MODULE Spec2Model ----------------------------
(***************************************************************************)
(* Model of app.py, the stock dashboard.  Streamlit executes the script    *)
(* from top to bottom once when the session opens and once more each time  *)
(* a widget changes; an exception ends the run at the line that raised it. *)
(* One action of the model is one such run.                                *)
(*                                                                         *)
(* A frame (pandas DataFrame) is a sequence of rows, a row a record of the *)
(* columns the script reads.  Numbers that the script holds as floats are  *)
(* held exactly: a quotient is a fraction [num, den], with den = 0 for the *)
(* values numpy gives on division by zero (0/0 is NaN, x/0 is +-inf).      *)
(* The comparisons the script makes on floats (q <= min * 1.2, pct <= 80,  *)
(* pct <= 95, ratio <= 120) agree with the exact ones on the integers of   *)
(* the model.  taux_rotation is counted in tenths.                         *)
(*                                                                         *)
(* The charts (lines 145-184, 288-299) are not modelled; valeur_stock is   *)
(* taken non-negative, as quantite x prix_unitaire of the sample data is.  *)
(***************************************************************************)
EXTENDS Integers, Sequences, FiniteSets, TLC

VARIABLES
    stock,                \* the rows load_data builds on a cache miss
    cache,                \* st.cache_data's store: <<>> or <<frame>>
    df,                   \* line 72
    kpis,                 \* line 73
    selected_category,    \* line 80  (widget state, kept between runs)
    selected_status,      \* line 84
    selected_fournisseur, \* line 88
    view_options,         \* line 233
    filtered_df,          \* lines 91-105
    alert_df,             \* lines 191-192
    alerts,               \* what the loop of lines 196-224 has shown
    display_df,           \* lines 240-257
    sorted_df,            \* lines 272-285
    abc_stats,            \* lines 302-305
    recommendations,      \* line 329
    error,                \* the exception that ended the last run
    line                  \* the line at which the last run ended, 0 at first

vars == <<stock, cache, df, kpis, selected_category, selected_status,
          selected_fournisseur, view_options, filtered_df, alert_df, alerts,
          display_df, sorted_df, abc_stats, recommendations, error, line>>

---------------------------------------------------------------------------
(* Bounds of the model.                                                    *)

\* The most rows of stock under each specification.
MaxRows == 2
StatusRows == 1
AlertRows == 3
AbcRows == 3
FilterRows == 2

Categories == {"Alimentaire", "Textile"}
Fournisseurs == {"Fournisseur A", "Fournisseur B"}

\* The columns of the frame load_data returns that the script reads
\* (produit, nom, emplacement, date_derniere_maj and prix_unitaire are only
\* shown or not read at all after loading).  The frame has no column statut.
StockColumns ==
    {"categorie", "fournisseur", "quantite", "seuil_minimum", "seuil_maximum",
     "valeur_stock", "taux_rotation", "jours_stock"}

Rows(cats, fours, quantites, minima, maxima, valeurs, taux, jours) ==
    [categorie : cats, fournisseur : fours, quantite : quantites,
     seuil_minimum : minima, seuil_maximum : maxima, valeur_stock : valeurs,
     taux_rotation : taux, jours_stock : jours]

Frames(rows, n) == UNION {[1..k -> rows] : k \in 0..n}

---------------------------------------------------------------------------
(* Arithmetic.                                                             *)

Abs(x) == IF x < 0 THEN -x ELSE x

RECURSIVE Gcd(_, _)
Gcd(a, b) == IF b = 0 THEN a ELSE Gcd(b, a % b)

Sign(x) == IF x > 0 THEN 1 ELSE IF x < 0 THEN -1 ELSE 0

\* a / b as numpy computes it on floats: no exception, NaN and inf on b = 0.
Div(a, b) ==
    IF b = 0 THEN [num |-> Sign(a), den |-> 0]
    ELSE LET g == Gcd(Abs(a), Abs(b))
         IN  [num |-> Sign(b) * (a \div g), den |-> Abs(b) \div g]

NaN == [num |-> 0, den |-> 0]
Num(n) == [num |-> n, den |-> 1]

\* x <= n for a float x and an integer n; false when x is NaN.
LessEq(x, n) ==
    IF x.den = 0 THEN x.num < 0 ELSE x.num <= n * x.den

\* x < n, likewise.
Less(x, n) ==
    IF x.den = 0 THEN x.num < 0 ELSE x.num < n * x.den

---------------------------------------------------------------------------
(* pandas operations on frames.  frame[mask], the rows that satisfy the    *)
(* mask in their order, is SelectSeq(frame, mask).                         *)

RECURSIVE Sum(_, _)
\* frame[col].sum()
Sum(frame, col) ==
    IF frame = <<>> THEN 0
    ELSE Sum(SubSeq(frame, 1, Len(frame) - 1), col) + frame[Len(frame)][col]

\* frame[col].mean(): NaN on an empty frame
Mean(frame, col) == Div(Sum(frame, col), Len(frame))

RECURSIVE sort_values(_, _, _)
\* frame.sort_values(col, ascending=...): rows of equal key keep their order
\* (numpy's default sort is an insertion sort on so few rows).
sort_values(frame, col, ascending) ==
    IF frame = <<>> THEN <<>>
    ELSE LET n    == Len(frame)
             init == sort_values(SubSeq(frame, 1, n - 1), col, ascending)
             r    == frame[n]
             k    == Cardinality({i \in 1..(n - 1) :
                        IF ascending THEN init[i][col] <= r[col]
                                     ELSE init[i][col] >= r[col]})
         IN  SubSeq(init, 1, k) \o <<r>> \o SubSeq(init, k + 1, n - 1)

\* list(frame[col].unique())
Unique(frame, col) == {frame[i][col] : i \in 1..Len(frame)}

---------------------------------------------------------------------------
(* Lines 23-57.  load_data is cached by st.cache_data: its body runs on the *)
(* first call only, later calls return a copy of the stored frame.  Both    *)
(* branches of the body build a frame of the same columns (the rows of      *)
(* stock.csv, or thirty generated rows); `stock` stands for the frame the   *)
(* body builds, whichever branch builds it.                                 *)
cache_data(cached, built) == IF cached = <<>> THEN <<built>> ELSE cached

load_data(cached, built) == cache_data(cached, built)[1]

\* Lines 60-69.
calculate_kpis(frame) ==
    [valeur_totale_stock |-> Sum(frame, "valeur_stock"),
     nombre_produits     |-> Len(frame),
     produits_en_rupture |->
        Len(SelectSeq(frame, LAMBDA r : r.quantite <= r.seuil_minimum)),
     produits_surstock   |->
        Len(SelectSeq(frame, LAMBDA r : r.quantite >= r.seuil_maximum)),
     taux_rotation_moyen |-> Mean(frame, "taux_rotation"),
     stock_moyen_jours   |-> Mean(frame, "jours_stock")]

\* Lines 79, 83, 87: the options the three select boxes offer.
category_options(frame) == {"Toutes"} \cup Unique(frame, "categorie")
status_options == {"Tous", "En alerte rupture", "Surstock", "Stock normal"}
fournisseur_options(frame) == {"Tous"} \cup Unique(frame, "fournisseur")
view_choices ==
    {"Tableau complet", "Produits en rupture", "Produits en surstock"}

\* Lines 93-94.
filter_category(frame, category) ==
    IF category # "Toutes"
    THEN SelectSeq(frame, LAMBDA r : r.categorie = category)
    ELSE frame

\* Lines 96-97.
filter_fournisseur(frame, fournisseur) ==
    IF fournisseur # "Tous"
    THEN SelectSeq(frame, LAMBDA r : r.fournisseur = fournisseur)
    ELSE frame

\* Lines 99-105.
filter_status(frame, status) ==
    IF status = "En alerte rupture"
    THEN SelectSeq(frame, LAMBDA r : r.quantite <= r.seuil_minimum)
    ELSE IF status = "Surstock"
    THEN SelectSeq(frame, LAMBDA r : r.quantite >= r.seuil_maximum)
    ELSE IF status = "Stock normal"
    THEN SelectSeq(frame, LAMBDA r : /\ r.quantite > r.seuil_minimum
                                  /\ r.quantite < r.seuil_maximum)
    ELSE frame

\* apply_filters with line 97 filtering df instead of filtered_df.
apply_filters_from_df(frame, category, fournisseur, status) ==
    filter_status(
        IF fournisseur # "Tous" THEN filter_fournisseur(frame, fournisseur)
        ELSE filter_category(frame, category),
        status)

\* Lines 91-105.
apply_filters(frame, category, fournisseur, status) ==
    filter_status(
        filter_fournisseur(filter_category(frame, category), fournisseur),
        status)

\* Lines 112-140: the two percentages of lines 123 and 131 divide Python ints.
kpi_display_error(k) ==
    IF k.nombre_produits = 0 THEN "ZeroDivisionError" ELSE "none"

\* alert_rows with the margin of 20% forgotten.
alert_rows_at_threshold(frame) ==
    SelectSeq(frame, LAMBDA r : r.quantite <= r.seuil_minimum)

\* Line 191: the rows at most 20% above their minimum threshold.  For the
\* integers of the model the float comparison q <= min * 1.2 is 5q <= 6min.
alert_rows(frame) ==
    SelectSeq(frame, LAMBDA r : 5 * r.quantite <= 6 * r.seuil_minimum)

\* Lines 191-192.
alert_frame(frame) == sort_values(alert_rows(frame), "quantite", TRUE)

\* Lines 197-208, for a row whose seuil_minimum is not 0.
alert_level(row) ==
    LET ratio == Div(row.quantite * 100, row.seuil_minimum)
    IN  IF row.quantite <= row.seuil_minimum THEN "Rupture"
        ELSE IF LessEq(ratio, 120) THEN "Alerte Critique"
        ELSE "Attention"

\* Line 211, for a row whose seuil_minimum is not 0: Python's min(100, x)
\* is x when x < 100 and 100 otherwise.
progress(row) ==
    LET x == Div(row.quantite * 100, row.seuil_minimum)
    IN  IF Less(x, 100) THEN x ELSE Num(100)

RECURSIVE alert_loop(_)
\* Lines 196-224: the rows shown before the loop ends or raises.  iterrows
\* yields Python numbers, so line 197 raises on a zero threshold; st.progress
\* (line 218) raises on a value outside [0.0, 1.0].
alert_loop(frame) ==
    IF frame = <<>> THEN [shown |-> <<>>, error |-> "none", line |-> 0]
    ELSE LET before == alert_loop(SubSeq(frame, 1, Len(frame) - 1))
             row    == frame[Len(frame)]
         IN  IF before.error # "none" THEN before
             ELSE IF row.seuil_minimum = 0
             THEN [before EXCEPT !.error = "ZeroDivisionError", !.line = 197]
             ELSE IF Less(progress(row), 0)
             THEN [before EXCEPT !.error = "StreamlitAPIException",
                                 !.line = 218]
             ELSE [before EXCEPT !.shown =
                      Append(@, [quantite      |-> row.quantite,
                                 seuil_minimum |-> row.seuil_minimum,
                                 alert_level   |-> alert_level(row),
                                 progress      |-> progress(row)])]

\* Lines 240-245.
view_filter(frame, view) ==
    IF view = "Produits en rupture"
    THEN SelectSeq(frame, LAMBDA r : r.quantite <= r.seuil_minimum)
    ELSE IF view = "Produits en surstock"
    THEN SelectSeq(frame, LAMBDA r : r.quantite >= r.seuil_maximum)
    ELSE frame

\* get_status with the two tests in the other order.
get_status_surstock_first(row) ==
    IF row.quantite >= row.seuil_maximum THEN "Surstock"
    ELSE IF row.quantite <= row.seuil_minimum THEN "Rupture"
    ELSE "Normal"

\* Lines 248-254.
get_status(row) ==
    IF row.quantite <= row.seuil_minimum THEN "Rupture"
    ELSE IF row.quantite >= row.seuil_maximum THEN "Surstock"
    ELSE "Normal"

\* Lines 256-257: the column is added to a copy.
with_statut(frame) ==
    [i \in 1..Len(frame) |-> frame[i] @@ [statut |-> get_status(frame[i])]]

\* Lines 277-283.
classify_abc(pct) ==
    IF LessEq(pct, 80) THEN "A"
    ELSE IF LessEq(pct, 95) THEN "B"
    ELSE "C"

\* Line 272.
sort_by_value(frame) == sort_values(frame, "valeur_stock", FALSE)

\* cumsum that accumulates nothing: each row's own value.
cumsum_own_value(frame, col, i) == frame[i][col]

\* Line 273: frame[col].cumsum(), at row i.
cumsum(frame, col, i) == Sum(SubSeq(frame, 1, i), col)

\* Lines 272-285: sort_values returns a new frame, the three columns are
\* added to it.
abc_frame(frame) ==
    LET sorted == sort_by_value(frame)
        total  == Sum(sorted, "valeur_stock")
        cumul(i) == cumsum(sorted, "valeur_stock", i)
        pct(i)   == Div(cumul(i) * 100, total)
    IN  [i \in 1..Len(sorted) |->
            sorted[i] @@ [cumul_valeur      |-> cumul(i),
                          pourcentage_cumul |-> pct(i),
                          classe_abc        |-> classify_abc(pct(i))]]

\* Lines 302-305: one row per class present, in the order A, B, C.
abc_groups(sorted) ==
    LET group(c) == SelectSeq(sorted, LAMBDA r : r.classe_abc = c)
        stat(c)  == IF group(c) = <<>> THEN <<>>
                    ELSE <<[classe_abc   |-> c,
                            produit      |-> Len(group(c)),
                            valeur_stock |-> Sum(group(c), "valeur_stock")]>>
    IN  stat("A") \o stat("B") \o stat("C")

\* Lines 329-359, on a frame with the given columns.  Line 332 reads the
\* column statut of filtered_df.
recommendation_rules(frame, columns) ==
    IF "statut" \notin columns
    THEN [recommendations |-> <<>>, error |-> "KeyError", line |-> 332]
    ELSE LET rupture  == SelectSeq(frame, LAMBDA r : r.statut = "Rupture")
             surstock == SelectSeq(frame, LAMBDA r : r.statut = "Surstock")
             slow     == SelectSeq(frame, LAMBDA r : r.taux_rotation < 10)
             r1 == IF rupture = <<>> THEN <<>>
                   ELSE <<[type   |-> "Rupture de stock",
                           count  |-> Len(rupture),
                           valeur |-> Sum(rupture, "valeur_stock")]>>
             r2 == IF surstock = <<>> THEN <<>>
                   ELSE <<[type   |-> "Surstock",
                           count  |-> Len(surstock),
                           valeur |-> Sum(surstock, "valeur_stock")]>>
             r3 == IF slow = <<>> THEN <<>>
                   ELSE <<[type   |-> "Rotation lente",
                           count  |-> Len(slow),
                           valeur |-> 0]>>
         IN  [recommendations |-> r1 \o r2 \o r3,
              error           |-> "none",
              line            |-> 381]

---------------------------------------------------------------------------
(* One run of the script, lines 1-381, with the widgets holding the given  *)
(* values.  A name the run does not bind is left <<>>; `line` tells how    *)
(* far the run went.  A radio button the run does not render loses its     *)
(* state and shows its first option when it is rendered again.             *)

\* The line at which a run ends, given what line 123, the alert loop and the
\* recommendation rules do.
last_line(k, loop, recs) ==
    IF kpi_display_error(k) # "none" THEN 123
    ELSE IF loop.error # "none" THEN loop.line
    ELSE recs.line

\* The exception that ends it.
last_error(k, loop, recs) ==
    IF kpi_display_error(k) # "none" THEN kpi_display_error(k)
    ELSE IF loop.error # "none" THEN loop.error
    ELSE recs.error

RunScript(category, status, fournisseur, view) ==
    \E frame \in {load_data(cache, stock)} :
    \E k \in {calculate_kpis(frame)} :
    \E filtered \in {apply_filters(frame, category, fournisseur, status)} :
    \E a \in {alert_frame(filtered)} :
    \E loop \in {alert_loop(a)} :
    \E recs \in {recommendation_rules(filtered, StockColumns)} :
    \E stop \in {last_line(k, loop, recs)} :
    \E v \in {IF stop > 233 THEN view ELSE "Tableau complet"} :
    \E sorted \in {IF stop >= 285 THEN abc_frame(filtered) ELSE <<>>} :
        /\ cache' = cache_data(cache, stock)
        /\ df' = frame
        /\ kpis' = k
        /\ selected_category' = category
        /\ selected_status' = status
        /\ selected_fournisseur' = fournisseur
        /\ filtered_df' = filtered
        /\ alert_df' = IF stop >= 192 THEN a ELSE <<>>
        /\ alerts' = IF stop >= 192 THEN loop.shown ELSE <<>>
        /\ view_options' = v
        /\ display_df' = IF stop >= 257
                         THEN with_statut(view_filter(filtered, v))
                         ELSE <<>>
        /\ sorted_df' = sorted
        /\ abc_stats' = IF stop >= 305 THEN abc_groups(sorted) ELSE <<>>
        /\ recommendations' = IF stop >= 329 THEN recs.recommendations ELSE <<>>
        /\ error' = last_error(k, loop, recs)
        /\ line' = stop
        /\ UNCHANGED stock

\* The session opens: every widget shows its first option.
FirstRun ==
    /\ line = 0
    /\ RunScript("Toutes", "Tous", "Tous", "Tableau complet")

\* The user picks another option of a widget the last run rendered.
SelectCategory(c) ==
    /\ line # 0
    /\ c \in category_options(df)
    /\ c # selected_category
    /\ RunScript(c, selected_status, selected_fournisseur, view_options)

SelectStatus(s) ==
    /\ line # 0
    /\ s \in status_options
    /\ s # selected_status
    /\ RunScript(selected_category, s, selected_fournisseur, view_options)

SelectFournisseur(f) ==
    /\ line # 0
    /\ f \in fournisseur_options(df)
    /\ f # selected_fournisseur
    /\ RunScript(selected_category, selected_status, f, view_options)

SelectView(v) ==
    /\ line > 233
    /\ v \in view_choices
    /\ v # view_options
    /\ RunScript(selected_category, selected_status, selected_fournisseur, v)

Next ==
    \/ FirstRun
    \/ \E c \in Categories \cup {"Toutes"} : SelectCategory(c)
    \/ \E s \in status_options : SelectStatus(s)
    \/ \E f \in Fournisseurs \cup {"Tous"} : SelectFournisseur(f)
    \/ \E v \in view_choices : SelectView(v)

\* Before the first run of a session over the rows `rows`, at most n of them:
\* no name of the script is bound yet (kpis holds the summary of no rows).
InitOn(rows, n) ==
    /\ stock \in Frames(rows, n)
    /\ cache = <<>>
    /\ df = <<>>
    /\ kpis = calculate_kpis(<<>>)
    /\ selected_category = "Toutes"
    /\ selected_status = "Tous"
    /\ selected_fournisseur = "Tous"
    /\ view_options = "Tableau complet"
    /\ filtered_df = <<>>
    /\ alert_df = <<>>
    /\ alerts = <<>>
    /\ display_df = <<>>
    /\ sorted_df = <<>>
    /\ abc_stats = <<>>
    /\ recommendations = <<>>
    /\ error = "none"
    /\ line = 0

\* Rows with negative and zero quantities and thresholds.
StockRows ==
    Rows(Categories, Fournisseurs, {-1, 1}, -1..1, {2}, {3}, {5}, {10})

Init == InitOn(StockRows, MaxRows)

Spec == Init /\ [][Next]_vars

\* Rows of one category and supplier with every order of quantity and
\* thresholds.
StatusRowSet ==
    Rows({"Textile"}, {"Fournisseur A"}, 0..3, 1..2, 1..3, {3}, {20}, {10})

InitStatus == InitOn(StatusRowSet, StatusRows)

SpecStatus == InitStatus /\ [][Next]_vars

\* Rows below, at (6 = 1.2 x 5) and above the alert margin, and rows with a
\* zero threshold.
AlertRowSet ==
    Rows({"Textile"}, {"Fournisseur A"}, {0, 6, 7}, {0, 5}, {9}, {3}, {20},
         {10})

InitAlert == InitOn(AlertRowSet, AlertRows)

SpecAlert == InitAlert /\ [][Next]_vars

\* Rows of normal stock that differ in value.
AbcRowSet ==
    Rows({"Textile"}, {"Fournisseur A"}, {5}, {1}, {9}, {0, 5, 15, 20, 80},
         {20}, {10})

InitAbc == InitOn(AbcRowSet, AbcRows)

SpecABC == InitAbc /\ [][Next]_vars

\* Rows of two categories and two suppliers, in stockout and in overstock.
FilterRowSet ==
    Rows(Categories, Fournisseurs, {1, 3}, {1}, {3}, {3}, {20}, {10})

InitFilter == InitOn(FilterRowSet, FilterRows)

SpecFilter == InitFilter /\ [][Next]_vars

---------------------------------------------------------------------------
(* Properties.                                                             *)

\* The number of times `row` occurs in `frame`.
Count(frame, row) == Cardinality({i \in 1..Len(frame) : frame[i] = row})

Range(frame) == {frame[i] : i \in 1..Len(frame)}

\* The columns of stock of a row that carries added columns.
StockPart(row) == [c \in StockColumns |-> row[c]]

\* C1: after every run, the KPI summary is the summary of the records that
\* pass the selected filters.
C1_KpisOverFilteredRecords ==
    line # 0 => kpis = calculate_kpis(filtered_df)

\* C2: a run that gets past the ABC analysis emits the stockout
\* recommendation if and only if some filtered record has quantity <= min
\* threshold, with the number of such records and the sum of their stock value.
C2_StockoutRecommendation ==
    line >= 305 =>
        LET rupture == SelectSeq(filtered_df,
                                 LAMBDA r : r.quantite <= r.seuil_minimum)
            emitted == {i \in 1..Len(recommendations) :
                          recommendations[i].type = "Rupture de stock"}
        IN  /\ (emitted # {} <=> rupture # <<>>)
            /\ \A i \in emitted :
                  /\ recommendations[i].count = Len(rupture)
                  /\ recommendations[i].valeur = Sum(rupture, "valeur_stock")

\* C3: on an empty record set the KPIs are computed and displayed without an
\* error, with count 0, total value 0 and both means 0.
C3_EmptySetKpis ==
    (line # 0 /\ df = <<>>) =>
        /\ line > 140
        /\ kpis.nombre_produits = 0
        /\ kpis.valeur_totale_stock = 0
        /\ kpis.taux_rotation_moyen = Num(0)
        /\ kpis.stock_moyen_jours = Num(0)

\* C4: every record shown gets exactly one status: Rupture iff quantity <= min,
\* Surstock iff quantity > min and quantity >= max, Normal otherwise, also when
\* min > max.
C4_StatusPartition ==
    line >= 257 =>
        /\ Len(display_df) = Len(view_filter(filtered_df, view_options))
        /\ \A i \in 1..Len(display_df) :
              LET r == display_df[i]
              IN  /\ r.statut \in {"Rupture", "Surstock", "Normal"}
                  /\ r.statut = "Rupture" <=> r.quantite <= r.seuil_minimum
                  /\ r.statut = "Surstock" <=>
                        (/\ r.quantite > r.seuil_minimum
                         /\ r.quantite >= r.seuil_maximum)
                  /\ r.statut = "Normal" <=>
                        (/\ r.quantite > r.seuil_minimum
                         /\ r.quantite < r.seuil_maximum)

\* A record with min > max that meets both tests is shown as Rupture.
C4_Witness ==
    /\ line >= 257
    /\ \E i \in 1..Len(display_df) :
          /\ display_df[i].seuil_minimum > display_df[i].seuil_maximum
          /\ display_df[i].quantite <= display_df[i].seuil_minimum
          /\ display_df[i].quantite >= display_df[i].seuil_maximum
          /\ display_df[i].statut = "Rupture"

\* C5: the alert list holds exactly the filtered records with
\* quantity <= 1.2 x min threshold, each as often as it is filtered, in order
\* of non-decreasing quantity.
C5_AlertList ==
    line >= 192 =>
        /\ \A i \in 1..(Len(alert_df) - 1) :
              alert_df[i].quantite <= alert_df[i + 1].quantite
        /\ \A r \in Range(filtered_df) \cup Range(alert_df) :
              Count(alert_df, r) =
                 IF 5 * r.quantite <= 6 * r.seuil_minimum
                 THEN Count(filtered_df, r) ELSE 0

\* Three filtered records: the one at the margin (6 = 1.2 x 5) comes first and
\* is listed last, one above the margin is left out.
C5_Witness ==
    /\ line >= 192
    /\ Len(filtered_df) = 3
    /\ Len(alert_df) = 2
    /\ filtered_df[1].quantite = 6
    /\ filtered_df[1].seuil_minimum = 5
    /\ alert_df[1].quantite = 0
    /\ alert_df[2] = filtered_df[1]

\* C6: every record of the alert list, also one with min threshold 0, gets a
\* fill ratio min(100, quantity / min x 100) in [0, 100], and no division
\* error is raised.
C6_FillRatio ==
    line >= 192 =>
        /\ error # "ZeroDivisionError"
        /\ Len(alerts) = Len(alert_df)
        /\ \A i \in 1..Len(alerts) :
              /\ ~ Less(alerts[i].progress, 0)
              /\ LessEq(alerts[i].progress, 100)

\* C7: sorted_df holds the filtered records in order of non-increasing stock
\* value; each is classified by its cumulative percentage of the total (A up
\* to 80, B up to 95, C above); the classes never decrease along sorted_df;
\* values 80, 15, 5 give A, B, C.
C7_AbcMonotonic ==
    line >= 285 =>
        LET n        == Len(sorted_df)
            value(i) == sorted_df[i].valeur_stock
            total    == Sum(filtered_df, "valeur_stock")
            cum(i)   == Sum(SubSeq(sorted_df, 1, i), "valeur_stock")
            rank(c)  == IF c = "A" THEN 1 ELSE IF c = "B" THEN 2 ELSE 3
        IN  /\ n = Len(filtered_df)
            /\ \A r \in Range(filtered_df) :
                  Count(filtered_df, r) =
                     Cardinality({i \in 1..n : StockPart(sorted_df[i]) = r})
            /\ \A i \in 1..(n - 1) : value(i) >= value(i + 1)
            /\ total > 0 =>
                  \A i \in 1..n :
                     sorted_df[i].classe_abc =
                        IF 100 * cum(i) <= 80 * total THEN "A"
                        ELSE IF 100 * cum(i) <= 95 * total THEN "B"
                        ELSE "C"
            /\ \A i \in 1..n : \A j \in i..n :
                  rank(sorted_df[i].classe_abc) <= rank(sorted_df[j].classe_abc)
            /\ (n = 3 /\ value(1) = 80 /\ value(2) = 15 /\ value(3) = 5) =>
                  /\ sorted_df[1].classe_abc = "A"
                  /\ sorted_df[2].classe_abc = "B"
                  /\ sorted_df[3].classe_abc = "C"

\* Records of value 5, 80, 15, in that order, are sorted and classed A, B, C.
C7_Witness ==
    /\ line >= 285
    /\ Len(filtered_df) = 3
    /\ filtered_df[1].valeur_stock = 5
    /\ filtered_df[2].valeur_stock = 80
    /\ filtered_df[3].valeur_stock = 15
    /\ Len(sorted_df) = 3
    /\ sorted_df[1].valeur_stock = 80 /\ sorted_df[1].classe_abc = "A"
    /\ sorted_df[2].valeur_stock = 15 /\ sorted_df[2].classe_abc = "B"
    /\ sorted_df[3].valeur_stock = 5 /\ sorted_df[3].classe_abc = "C"

\* C8: a run over a dataset with a negative quantity or threshold fails with
\* InvalidRecord.
C8_InvalidRecord ==
    (/\ line # 0
     /\ \E i \in 1..Len(df) :
           \/ df[i].quantite < 0
           \/ df[i].seuil_minimum < 0
           \/ df[i].seuil_maximum < 0)
    => error = "InvalidRecord"

\* C9: after every run, whatever was selected before, the stored dataset and
\* df are the dataset as loaded, and filtered_df holds the records of that
\* dataset that pass the filters now selected, in their order.
C9_SourceUnchanged ==
    line # 0 =>
        /\ cache = <<stock>>
        /\ df = stock
        /\ filtered_df =
              SelectSeq(stock, LAMBDA r :
                 /\ selected_category = "Toutes" \/ r.categorie = selected_category
                 /\ selected_fournisseur = "Tous"
                       \/ r.fournisseur = selected_fournisseur
                 /\ \/ selected_status = "Tous"
                    \/ /\ selected_status = "En alerte rupture"
                       /\ r.quantite <= r.seuil_minimum
                    \/ /\ selected_status = "Surstock"
                       /\ r.quantite >= r.seuil_maximum
                    \/ /\ selected_status = "Stock normal"
                       /\ r.quantite > r.seuil_minimum
                       /\ r.quantite < r.seuil_maximum)

\* All three filters have been changed, and they keep some records and drop
\* others.
C9_Witness ==
    /\ line # 0
    /\ selected_category # "Toutes"
    /\ selected_fournisseur # "Tous"
    /\ selected_status # "Tous"
    /\ filtered_df # <<>>
    /\ Len(filtered_df) < Len(df)

\* C10: a status filter keeps exactly the records, among those that pass the
\* category and supplier filters, that get_status gives the matching status.
C10_StatusFilterAgrees ==
    (line # 0 /\ selected_status # "Tous") =>
        LET wanted == IF selected_status = "En alerte rupture" THEN "Rupture"
                      ELSE IF selected_status = "Surstock" THEN "Surstock"
                      ELSE "Normal"
            base   == filter_fournisseur(filter_category(df, selected_category),
                                         selected_fournisseur)
        IN  filtered_df = SelectSeq(base, LAMBDA r : get_status(r) = wanted)

=============================================================================
